---- MODULE Spec2Model ----
(***************************************************************************)
(* Model of src/src/optimization/stacked_optimizer.py: the genetic         *)
(* optimizer that packs rectangles on the bottom and top edges of stacked  *)
(* containers.                                                             *)
(*                                                                         *)
(* Numbers.  Widths and x offsets are the integers of the problem          *)
(* instance.  Heights are floats in the source; here a height value v      *)
(* stands for v / HScale, so that the 0..2 % jitter of pack_rectangles and *)
(* the equal split max_total_height / num_containers are exact for the     *)
(* instances below.  Fitness values stand for f / FScale, each quotient of *)
(* evaluate_fitness being taken with integer division.                     *)
(*                                                                         *)
(* Randomness.  Every draw of the module `random` is a nondeterministic    *)
(* choice (\E) from a small set of the values the draw can produce.        *)
(***************************************************************************)
EXTENDS Integers, Sequences, FiniteSets, TLC

VARIABLES
    prob,                 \* the problem instance the optimizer was built with
    pc,                   \* position of the running procedure
    pk,                   \* pack_rectangles in progress (SpecPack)
    population,           \* self.population
    new_population,       \* evolve: new_population
    best_individual,      \* self.best_individual
    parent1, parent2,     \* evolve: the selected parents
    child1, child2,       \* evolve: the children being bred
    generation,           \* evolve: loop counter
    stagnation_counter,   \* evolve: stagnation_counter
    best_fitness_history, \* evolve: best_fitness_history
    current_mutation,     \* evolve: current_mutation (per cent)
    ops                   \* number of operators applied so far (SpecEnc)

vars == <<prob, pc, pk, population, new_population, best_individual,
          parent1, parent2, child1, child2, generation, stagnation_counter,
          best_fitness_history, current_mutation, ops>>

(***************************************************************************)
(* Bounds of the model and units.                                          *)
(***************************************************************************)
MaxContainers == 2
MaxOps == 2
MaxGrowth == 2
StagnantGenerations == 18
HScale == 100
FScale == 1000
JitterPcts == {0, 2}       \* random.uniform(0.0, 0.02), in per cent

None == [none |-> TRUE]

Max2(a, b) == IF a >= b THEN a ELSE b
Min2(a, b) == IF a <= b THEN a ELSE b
MaxOf(S) == CHOOSE m \in S : \A y \in S : y <= m
Range(s) == {s[i] : i \in 1..Len(s)}
Perms(S) == {f \in [1..Cardinality(S) -> S] : \A a \in S : \E i \in 1..Cardinality(S) : f[i] = a}

\* a Python list: a finite sequence in explicit form
List(f) == SubSeq(f, 1, Len(f))

RECURSIVE SumSeq(_)
SumSeq(s) == IF s = <<>> THEN 0 ELSE s[1] + SumSeq(Tail(s))

(***************************************************************************)
(* Rectangle table (Rectangle, lines 20-36): ids are 0-based as in the     *)
(* source, the table is a sequence.                                        *)
(***************************************************************************)
NumRects == Len(prob.rectangles)
RectIds == 0..(NumRects - 1)
RectW(r) == prob.rectangles[r + 1].width
RectH(r) == prob.rectangles[r + 1].height * HScale
RectArea(r) == RectW(r) * RectH(r)

(***************************************************************************)
(* Container (lines 38-142).  An item is <<rect_id, x_position>>.          *)
(***************************************************************************)
NewContainer(w, h, i) ==
    [width |-> w, height |-> h, id |-> i,
     bottom_rectangles |-> <<>>, top_rectangles |-> <<>>]

AllItems(c) == c.bottom_rectangles \o c.top_rectangles

used_area(c) == SumSeq(List([i \in 1..Len(AllItems(c)) |-> RectArea(AllItems(c)[i][1])]))

get_bottom_height(c) ==
    IF c.bottom_rectangles = <<>> THEN 0
    ELSE MaxOf({RectH(it[1]) : it \in Range(c.bottom_rectangles)})

get_top_height(c) ==
    IF c.top_rectangles = <<>> THEN 0
    ELSE MaxOf({RectH(it[1]) : it \in Range(c.top_rectangles)})

\* the x_overlap test with the top item's width left out of its second half
XOverlapItemsNoWidth(b, t) ==
    ~(b[2] + RectW(b[1]) <= t[2] \/ b[2] >= t[2])

\* x_overlap of a bottom item b and a top item t (lines 124-125, 525)
XOverlapItems(b, t) ==
    ~(b[2] + RectW(b[1]) <= t[2] \/ b[2] >= t[2] + RectW(t[1]))

\* lines 114-130: the height the x-overlapping (bottom, top) pairs require
MinHeightMaxOnly(c) == Max2(get_bottom_height(c), get_top_height(c))
MinHeightSum(c) ==
    LET req == {RectH(b[1]) + RectH(t[1]) :
                  <<b, t>> \in {p \in Range(c.bottom_rectangles) \X Range(c.top_rectangles) :
                                  XOverlapItems(p[1], p[2])}}
    IN IF req = {} THEN 0 ELSE MaxOf(req)

\* get_minimum_height without the floor of lines 138-142
get_minimum_height_unfloored(c) ==
    IF c.bottom_rectangles = <<>> \/ c.top_rectangles = <<>>
    THEN get_bottom_height(c) + get_top_height(c)
    ELSE IF MinHeightSum(c) = 0
         THEN Max2(get_bottom_height(c), get_top_height(c))
         ELSE MinHeightSum(c)

get_minimum_height(c) ==
    IF c.bottom_rectangles = <<>> \/ c.top_rectangles = <<>>
    THEN get_bottom_height(c) + get_top_height(c)
    ELSE LET overlapping == MinHeightSum(c)
             min_height_needed ==
                 IF overlapping = 0
                 THEN Max2(get_bottom_height(c), get_top_height(c))
                 ELSE overlapping
             tallest_rect == MaxOf({RectH(it[1]) : it \in Range(AllItems(c))})
         IN Max2(min_height_needed, tallest_rect)

(***************************************************************************)
(* Placement feasibility (lines 350-378).                                  *)
(***************************************************************************)
can_place_at_bottom(c, r) ==
    IF RectH(r) > c.height THEN FALSE
    ELSE LET available_space == c.height - get_top_height(c)
             new_bottom_height == Max2(get_bottom_height(c), RectH(r))
         IN new_bottom_height <= available_space

can_place_at_top(c, r) ==
    IF RectH(r) > c.height THEN FALSE
    ELSE LET available_space == c.height - get_bottom_height(c)
             new_top_height == Max2(get_top_height(c), RectH(r))
         IN new_top_height <= available_space

\* the same-edge overlap test answering "no overlap" always
OverlapsWithNothing(items, r, x_pos) == FALSE

\* lines 456-472: would rectangle r at x_pos overlap an item of `items`
OverlapsWith(items, r, x_pos) ==
    \E it \in Range(items) :
        ~(x_pos + RectW(r) <= it[2] \/ x_pos >= it[2] + RectW(it[1]))

(***************************************************************************)
(* X-offset search (lines 380-454).  A position is <<x>>, "no position"    *)
(* (None) is <<>>.                                                         *)
(***************************************************************************)
\* Strategy 1: align with the items of the opposite edge, in list order.
StartFitsNoCheck(o_x, w, cw) == TRUE
StartFits(o_x, w, cw) == o_x + w <= cw
AlignedEndOk(aligned_x, w, cw) == aligned_x >= 0 /\ aligned_x + w <= cw

RECURSIVE AlignScan(_, _, _, _, _)
AlignScan(opp, same, r, cw, i) ==
    IF i > Len(opp) THEN <<>>
    ELSE LET o_x == opp[i][2]
             aligned_x == o_x + RectW(opp[i][1]) - RectW(r)
         IN IF StartFits(o_x, RectW(r), cw) /\ ~OverlapsWith(same, r, o_x)
            THEN <<o_x>>
            ELSE IF AlignedEndOk(aligned_x, RectW(r), cw) /\ ~OverlapsWith(same, r, aligned_x)
            THEN <<aligned_x>>
            ELSE AlignScan(opp, same, r, cw, i + 1)

\* occupied_ranges.sort(): tuples <<start, end>> in lexicographic order
RangeLeq(a, b) == a[1] < b[1] \/ (a[1] = b[1] /\ a[2] <= b[2])

RECURSIVE InsertRange(_, _)
InsertRange(s, e) ==
    IF s = <<>> THEN <<e>>
    ELSE IF RangeLeq(e, s[1]) THEN <<e>> \o s
    ELSE <<s[1]>> \o InsertRange(Tail(s), e)

RECURSIVE SortRanges(_)
SortRanges(s) == IF s = <<>> THEN <<>> ELSE InsertRange(SortRanges(Tail(s)), s[1])

OccupiedRanges(items) ==
    SortRanges(List([i \in 1..Len(items) |-> <<items[i][2], items[i][2] + RectW(items[i][1])>>]))

\* the final test with < in place of <=
FitsAtEndStrict(current_x, w, cw) == current_x + w < cw

\* the final test of the first-fit scan (lines 413-416, 451-454)
FitsAtEnd(current_x, w, cw) == current_x + w <= cw

\* Strategy 2: left-to-right first fit over the sorted occupied ranges.
RECURSIVE FirstFit(_, _, _, _, _)
FirstFit(ranges, w, cw, current_x, i) ==
    IF i > Len(ranges)
    THEN IF FitsAtEnd(current_x, w, cw) THEN <<current_x>> ELSE <<>>
    ELSE IF current_x + w <= ranges[i][1] THEN <<current_x>>
    ELSE FirstFit(ranges, w, cw, Max2(current_x, ranges[i][2]), i + 1)

find_bottom_position(c, r) ==
    IF ~can_place_at_bottom(c, r) THEN <<>>
    ELSE LET s1 == AlignScan(c.top_rectangles, c.bottom_rectangles, r, c.width, 1)
         IN IF s1 # <<>> THEN s1
            ELSE FirstFit(OccupiedRanges(c.bottom_rectangles), RectW(r), c.width, 0, 1)

find_top_position(c, r) ==
    IF ~can_place_at_top(c, r) THEN <<>>
    ELSE LET s1 == AlignScan(c.bottom_rectangles, c.top_rectangles, r, c.width, 1)
         IN IF s1 # <<>> THEN s1
            ELSE FirstFit(OccupiedRanges(c.top_rectangles), RectW(r), c.width, 0, 1)

(***************************************************************************)
(* has_clash (lines 504-533).                                              *)
(***************************************************************************)
has_rectangle_clashes(c) ==
    IF c.bottom_rectangles = <<>> \/ c.top_rectangles = <<>> THEN FALSE
    ELSE \E b \in Range(c.bottom_rectangles) : \E t \in Range(c.top_rectangles) :
            LET bottom_y_end == RectH(b[1])
                top_y_start == c.height - RectH(t[1])
                y_overlap == ~(bottom_y_end <= top_y_start \/ 0 >= c.height)
            IN XOverlapItems(b, t) /\ y_overlap

(***************************************************************************)
(* Individual (lines 144-205).  oid, hid and cid are the identities of the *)
(* three mutable lists an individual holds (rectangle_order,               *)
(* container_heights, containers): two individuals alias a list exactly    *)
(* when they hold the same identity for it.                                *)
(***************************************************************************)
EqualSplit(n) == (prob.max_total_height * HScale) \div n

\* __init__: n is random.randint(1, max_containers), ids the new lists
Individual(n, ids) ==
    [num_containers |-> n,
     rectangle_order |-> List([i \in 1..NumRects |-> i - 1]),
     container_heights |-> List([i \in 1..n |-> EqualSplit(n)]),
     fitness |-> 0,
     containers |-> <<>>,
     total_height_used |-> 0,
     rectangles_placed |-> 0,
     oid |-> ids[1], hid |-> ids[2], cid |-> ids[3]]

(***************************************************************************)
(* pack_rectangles (lines 273-348).                                        *)
(***************************************************************************)
\* lines 290-296 (InitialContainersSwapped: width and height passed in each other's place)
InitialContainersSwapped(ind) ==
    List([i \in 1..ind.num_containers |->
        NewContainer((IF i <= Len(ind.container_heights)
                        THEN ind.container_heights[i]
                        ELSE EqualSplit(ind.num_containers)) \div HScale,
                     prob.container_width * HScale, i - 1)])
\* lines 290-296 with the heights taken from the containers of the previous
\* evaluation, where there is one, instead of from container_heights
InitialContainersKept(ind) ==
    List([i \in 1..ind.num_containers |->
        NewContainer(prob.container_width,
                     IF i <= Len(ind.containers)
                       THEN ind.containers[i].height
                       ELSE IF i <= Len(ind.container_heights)
                              THEN ind.container_heights[i]
                              ELSE EqualSplit(ind.num_containers),
                     i - 1)])
InitialContainers(ind) ==
    List([i \in 1..ind.num_containers |->
        NewContainer(prob.container_width,
                     IF i <= Len(ind.container_heights)
                       THEN ind.container_heights[i]
                       ELSE EqualSplit(ind.num_containers),
                     i - 1)])

\* lines 308-327 with the top edge tried before the bottom edge
TryContainerTopFirst(c, r) ==
    IF RectW(r) > c.width THEN [c |-> c, placed |-> FALSE]
    ELSE LET tpos == IF can_place_at_top(c, r) THEN find_top_position(c, r) ELSE <<>>
         IN IF tpos # <<>>
            THEN [c |-> [c EXCEPT !.top_rectangles = Append(@, <<r, tpos[1]>>)],
                  placed |-> TRUE]
            ELSE LET bpos == IF can_place_at_bottom(c, r)
                             THEN find_bottom_position(c, r) ELSE <<>>
                 IN IF bpos # <<>>
                    THEN [c |-> [c EXCEPT !.bottom_rectangles = Append(@, <<r, bpos[1]>>)],
                          placed |-> TRUE]
                    ELSE [c |-> c, placed |-> FALSE]

\* lines 308-327: one container tried for rectangle r
TryContainer(c, r) ==
    IF RectW(r) > c.width THEN [c |-> c, placed |-> FALSE]
    ELSE LET bpos == IF can_place_at_bottom(c, r) THEN find_bottom_position(c, r) ELSE <<>>
         IN IF bpos # <<>>
            THEN [c |-> [c EXCEPT !.bottom_rectangles = Append(@, <<r, bpos[1]>>)],
                  placed |-> TRUE]
            ELSE LET tpos == IF can_place_at_top(c, r) THEN find_top_position(c, r) ELSE <<>>
                 IN IF tpos # <<>>
                    THEN [c |-> [c EXCEPT !.top_rectangles = Append(@, <<r, tpos[1]>>)],
                          placed |-> TRUE]
                    ELSE [c |-> c, placed |-> FALSE]

\* lines 307-333: the containers scanned in index order, stopping at the first success
RECURSIVE PlaceScan(_, _, _)
PlaceScan(containers, r, i) ==
    IF i > Len(containers)
    THEN [containers |-> containers, placed |-> FALSE, container_idx |-> -1]
    ELSE LET t == TryContainer(containers[i], r)
         IN IF t.placed
            THEN [containers |-> [containers EXCEPT ![i] = t.c],
                  placed |-> TRUE, container_idx |-> i - 1]
            ELSE PlaceScan(containers, r, i + 1)

\* the state of pack_rectangles before its loop (lines 290-299)
PackStart(ind) ==
    [ind |-> ind,
     containers |-> InitialContainers(ind),
     pos |-> 0,
     placed_count |-> 0,
     rectangle_assignments |-> List([i \in 1..NumRects |-> -1])]

\* one iteration of the loop over rectangle_order (lines 302-333)
PackStep(p) ==
    LET r == p.ind.rectangle_order[p.pos + 1]
        s == PlaceScan(p.containers, r, 1)
    IN [p EXCEPT !.containers = s.containers,
                 !.pos = @ + 1,
                 !.placed_count = IF s.placed THEN @ + 1 ELSE @,
                 !.rectangle_assignments[r + 1] = s.container_idx]

RECURSIVE PackLoop(_)
PackLoop(p) == IF p.pos >= Len(p.ind.rectangle_order) THEN p ELSE PackLoop(PackStep(p))

\* line 345-346: the height of a container that holds items; j is the jitter in per cent
JitteredHeightDown(min_height, j) == min_height - (j * min_height) \div 100
JitteredHeight(min_height, j) == min_height + (j * min_height) \div 100

\* lines 336-346; jit[i] is the draw for container i
OptimizeHeights(containers, jit) ==
    List([i \in 1..Len(containers) |->
        IF containers[i].bottom_rectangles # <<>> \/ containers[i].top_rectangles # <<>>
        THEN [containers[i] EXCEPT
                 !.height = JitteredHeight(get_minimum_height(containers[i]), jit[i])]
        ELSE containers[i]])

Jitters(n) == [1..n -> JitterPcts]

pack_rectangles(ind, jit) ==
    LET p == PackLoop(PackStart(ind))
    IN [containers |-> OptimizeHeights(p.containers, jit),
        placed_count |-> p.placed_count,
        rectangle_assignments |-> p.rectangle_assignments]

(***************************************************************************)
(* Individual.initialize_random and Individual.copy (lines 183-205).       *)
(***************************************************************************)
\* the outcomes of random.shuffle on a list
Shuffles(s) == {List([i \in 1..Len(s) |-> s[p[i]]]) : p \in Perms(1..Len(s))}

initialize_random(ind, shuffled) == [ind EXCEPT !.rectangle_order = shuffled]

\* line 192: the list the copy holds as rectangle_order
CopiedOrderIdShared(self, ids) == self.oid
CopiedOrderId(self, ids) == ids[1]

\* n is the random.randint drawn by Individual.__init__, ids the new lists;
\* container_heights is not assigned by copy: it stays the constructor's
\* list for n
copy(self, n, ids) ==
    [Individual(n, ids) EXCEPT
        !.num_containers = self.num_containers,
        !.rectangle_order = self.rectangle_order,
        !.oid = CopiedOrderId(self, ids),
        !.fitness = self.fitness,
        !.containers = self.containers,
        !.total_height_used = self.total_height_used,
        !.rectangles_placed = self.rectangles_placed]

(***************************************************************************)
(* evaluate_fitness (lines 535-614).  Fitness values are in 1/FScale.      *)
(***************************************************************************)
utilization(c) ==
    LET total_area == c.width * c.height
    IN IF total_area = 0 THEN 0 ELSE (used_area(c) * FScale) \div total_area

HasItems(c) == c.bottom_rectangles # <<>> \/ c.top_rectangles # <<>>

\* lines 560-561 and 567-614: the weighted sum of the fitness components
FitnessTerms(containers, placed_count, num_containers, total_height_used) ==
      LET total_rectangles == NumRects
          placement_rate == (placed_count * FScale) \div total_rectangles
          withItems == {i \in 1..Len(containers) : HasItems(containers[i])}
          total_utilization ==
              SumSeq(List([i \in 1..Len(containers) |->
                         IF i \in withItems THEN utilization(containers[i]) ELSE 0]))
          avg_utilization ==
              IF withItems # {} THEN total_utilization \div Cardinality(withItems) ELSE 0
          container_penalty == (num_containers * FScale) \div prob.max_containers
          height_penalty ==
              IF prob.max_total_height > 0
              THEN (total_height_used * FScale) \div (prob.max_total_height * HScale)
              ELSE FScale
          placement_bonus == IF placed_count = total_rectangles THEN 500 * FScale ELSE 0
          clash_penalty ==
              10000 * FScale *
                Cardinality({i \in 1..Len(containers) : has_rectangle_clashes(containers[i])})
          compactness_bonus ==
              SumSeq(List([i \in 1..Len(containers) |->
                         IF /\ containers[i].bottom_rectangles # <<>>
                            /\ containers[i].top_rectangles # <<>>
                            /\ containers[i].height > 0
                         THEN ((get_minimum_height(containers[i]) * FScale)
                                  \div containers[i].height) * 200
                         ELSE 0]))
      IN placement_rate * 1000 + placement_bonus + avg_utilization * 300
           + compactness_bonus - container_penalty * 50 - height_penalty * 30
           - clash_penalty

\* evaluate_fitness without the early return of lines 563-565
FitnessNoSentinel(containers, placed_count, num_containers, total_height_used) ==
    FitnessTerms(containers, placed_count, num_containers, total_height_used)

\* lines 560-614: the sentinel of lines 563-565, else the weighted sum
Fitness(containers, placed_count, num_containers, total_height_used) ==
    IF placed_count = 0 THEN -1000 * FScale
    ELSE FitnessTerms(containers, placed_count, num_containers, total_height_used)

\* lines 552-559 and 606-614: the fields evaluate_fitness writes, packed being
\* what pack_rectangles returned and cid the new containers list
Evaluated(ind, packed, cid) ==
    LET containers == packed.containers
        total == SumSeq(List([i \in 1..Min2(ind.num_containers, Len(containers)) |->
                            containers[i].height]))
    IN [ind EXCEPT
          !.containers = containers,
          !.cid = cid,
          !.rectangles_placed = packed.placed_count,
          !.total_height_used = total,
          !.fitness = Fitness(containers, packed.placed_count, ind.num_containers, total)]

\* jit: the jitter draws of pack_rectangles
evaluate_fitness(ind, jit, cid) ==
    CHOOSE e \in {Evaluated(ind, packed, cid) : packed \in {pack_rectangles(ind, jit)}} : TRUE

(***************************************************************************)
(* crossover (lines 633-714).                                              *)
(***************************************************************************)
\* lines 672-682: coins[i] is the outcome of random.random() < 0.5 at index i - 1
RECURSIVE CrossHeights(_, _, _, _, _, _)
CrossHeights(h1, h2, coins, i, c1, c2) ==
    IF i > Len(coins) THEN <<c1, c2>>
    ELSE IF coins[i]
    THEN CrossHeights(h1, h2, coins, i + 1,
                      IF i <= Len(h1) THEN Append(c1, h1[i]) ELSE c1,
                      IF i <= Len(h2) THEN Append(c2, h2[i]) ELSE c2)
    ELSE CrossHeights(h1, h2, coins, i + 1,
                      IF i <= Len(h2) THEN Append(c1, h2[i]) ELSE c1,
                      IF i <= Len(h1) THEN Append(c2, h1[i]) ELSE c2)

\* lines 685-692: truncate to n entries, then pad with max_total_height / n
RECURSIVE PadHeights(_, _)
PadHeights(h, n) == IF Len(h) >= n THEN h ELSE PadHeights(Append(h, EqualSplit(n)), n)

FitHeights(h, n) == PadHeights(SubSeq(h, 1, Min2(Len(h), n)), n)

\* lines 700-704 without the `pointer += 1` of line 704
RECURSIVE OXFillStuck(_, _, _, _)
OXFillStuck(child, items, k, pointer) ==
    IF k > Len(items) THEN child
    ELSE IF items[k] \notin Range(child)
    THEN OXFillStuck([child EXCEPT ![(pointer % Len(child)) + 1] = items[k]],
                     items, k + 1, pointer)
    ELSE OXFillStuck(child, items, k + 1, pointer)

\* lines 700-704: the items of the other parent fill the free slots from `pointer` on
RECURSIVE OXFill(_, _, _, _)
OXFill(child, items, k, pointer) ==
    IF k > Len(items) THEN child
    ELSE IF items[k] \notin Range(child)
    THEN OXFill([child EXCEPT ![(pointer % Len(child)) + 1] = items[k]],
                items, k + 1, pointer + 1)
    ELSE OXFill(child, items, k + 1, pointer)

\* lines 698-704: start and end are 0-based, the segment is [start, end)
OrderCrossover(pa, pb, start, end) ==
    LET size == Len(pa)
        seeded == List([i \in 1..size |-> IF start < i /\ i <= end THEN pa[i] ELSE -1])
        items == SubSeq(pb, end + 1, size) \o SubSeq(pb, 1, end)
    IN OXFill(seeded, items, 1, end)

\* sorted(random.sample(range(size), 2))
CutPoints(size) == {c \in (0..(size - 1)) \X (0..(size - 1)) : c[1] < c[2]}

\* the children of a performed crossover (lines 655-714); numCoin is the draw
\* of line 661, coins those of line 673, cut the two cut points
CrossChildren(p1, p2, numCoin, coins, cut, ids1, ids2) ==
    LET n1 == IF numCoin THEN p1.num_containers ELSE p2.num_containers
        n2 == IF numCoin THEN p2.num_containers ELSE p1.num_containers
        hs == CrossHeights(p1.container_heights, p2.container_heights, coins, 1, <<>>, <<>>)
    IN << [Individual(1, ids1) EXCEPT
              !.num_containers = n1,
              !.container_heights = FitHeights(hs[1], n1),
              !.rectangle_order =
                  OrderCrossover(p1.rectangle_order, p2.rectangle_order, cut[1], cut[2])],
          [Individual(1, ids2) EXCEPT
              !.num_containers = n2,
              !.container_heights = FitHeights(hs[2], n2),
              !.rectangle_order =
                  OrderCrossover(p2.rectangle_order, p1.rectangle_order, cut[1], cut[2])] >>

CoinLists(n) == [1..n -> BOOLEAN]

(***************************************************************************)
(* mutate (lines 716-806).  Each operator yields the mutated individual    *)
(* and the final contents of the two list objects it held on entry         *)
(* (heights_obj, order_obj): an operator either writes into the list it    *)
(* holds or binds a new list (hid), and a write is seen by every holder.   *)
(***************************************************************************)
DeltaPcts == {-30, 30}      \* random.uniform(-current * 0.3, current * 0.3), in per cent
AdjustPcts == {80, 120}     \* random.uniform(0.8, 1.2), in per cent

Outcome(ind, heights_obj, order_obj) ==
    [ind |-> ind, heights_obj |-> heights_obj, order_obj |-> order_obj]

Unmutated(ind) == Outcome(ind, ind.container_heights, ind.rectangle_order)

\* 'containers' (lines 737-743); n is random.randint(1, max_containers)
MutContainers(ind, n, hid) ==
    LET grown == PadHeights(ind.container_heights, n)
    IN Outcome([ind EXCEPT !.num_containers = n,
                           !.container_heights = SubSeq(grown, 1, n),
                           !.hid = hid],
               grown, ind.rectangle_order)

\* 'heights' (lines 745-758); idx is 1-based, d the delta in per cent
MutHeights(ind, idx, d, hid) ==
    LET current == ind.container_heights[idx]
        delta == (current * d) \div 100
        written == [ind.container_heights EXCEPT ![idx] = Max2(1 * HScale, current + delta)]
        total == SumSeq(written)
        limit == prob.max_total_height * HScale
    IN IF total > limit
       THEN Outcome([ind EXCEPT
                       !.container_heights =
                           List([i \in 1..Len(written) |-> (written[i] * limit) \div total]),
                       !.hid = hid],
                    written, ind.rectangle_order)
       ELSE Outcome([ind EXCEPT !.container_heights = written],
                    written, ind.rectangle_order)

\* 'order' (lines 760-765); i and j are 1-based, distinct
MutOrder(ind, i, j) ==
    LET swapped == [ind.rectangle_order EXCEPT ![i] = ind.rectangle_order[j],
                                               ![j] = ind.rectangle_order[i]]
    IN Outcome([ind EXCEPT !.rectangle_order = swapped], ind.container_heights, swapped)

\* 'adjust' with the last container drawn like the others (no lines 774-775)
RECURSIVE AdjustLoopNoRemainder(_, _, _, _, _)
AdjustLoopNoRemainder(i, n, remaining, pcts, acc) ==
    IF i > n THEN acc
    ELSE LET height == Min2((EqualSplit(n) * pcts[i]) \div 100, remaining)
         IN AdjustLoopNoRemainder(i + 1, n, remaining - height, pcts, Append(acc, height))

\* 'adjust' (lines 767-780); pcts[i] is the draw of line 777 for container i
RECURSIVE AdjustLoop(_, _, _, _, _)
AdjustLoop(i, n, remaining, pcts, acc) ==
    IF i > n THEN acc
    ELSE LET height == IF i = n THEN remaining
                       ELSE Min2((EqualSplit(n) * pcts[i]) \div 100, remaining)
         IN AdjustLoop(i + 1, n, remaining - height, pcts, Append(acc, height))

MutAdjust(ind, pcts, hid) ==
    Outcome([ind EXCEPT
               !.container_heights =
                   AdjustLoop(1, ind.num_containers, prob.max_total_height * HScale, pcts, <<>>),
               !.hid = hid],
            ind.container_heights, ind.rectangle_order)

\* 'shuffle' (lines 782-791); start_idx is 0-based, shuffled the shuffled subsequence
MutShuffle(ind, start_idx, shuffled) ==
    LET o == ind.rectangle_order
        written == List([i \in 1..Len(o) |->
                       IF start_idx < i /\ i <= start_idx + Len(shuffled)
                       THEN shuffled[i - start_idx] ELSE o[i]])
    IN Outcome([ind EXCEPT !.rectangle_order = written], ind.container_heights, written)

\* 'random_heights' (lines 793-806); low[i] tells which end of
\* random.uniform(0.5, remaining * 0.8) is drawn for container i
RECURSIVE RandomHeightsLoop(_, _, _, _, _)
RandomHeightsLoop(i, n, remaining, low, acc) ==
    IF i > n THEN acc
    ELSE LET height == IF i = n THEN remaining
                       ELSE Min2(IF low[i] THEN HScale \div 2 ELSE (remaining * 80) \div 100,
                                 remaining)
         IN RandomHeightsLoop(i + 1, n, remaining - height, low, Append(acc, height))

MutRandomHeights(ind, low, hid) ==
    Outcome([ind EXCEPT
               !.container_heights =
                   RandomHeightsLoop(1, ind.num_containers,
                                     prob.max_total_height * HScale, low, <<>>),
               !.hid = hid],
            ind.container_heights, ind.rectangle_order)

MutationTypes == {"containers", "heights", "order", "adjust", "shuffle", "random_heights"}

\* every outcome of one mutation operator on ind, over its random draws
MutationOutcomes(type, ind, hid) ==
    CASE type = "containers" ->
           {MutContainers(ind, n, hid) : n \in 1..prob.max_containers}
      [] type = "heights" ->
           IF ind.container_heights = <<>> THEN {Unmutated(ind)}
           ELSE {MutHeights(ind, idx, d, hid) :
                    idx \in 1..Len(ind.container_heights), d \in DeltaPcts}
      [] type = "order" ->
           IF Len(ind.rectangle_order) > 1
           THEN {MutOrder(ind, ij[1], ij[2]) :
                    ij \in {x \in (1..NumRects) \X (1..NumRects) : x[1] # x[2]}}
           ELSE {Unmutated(ind)}
      [] type = "adjust" ->
           IF ind.num_containers > 0
           THEN {MutAdjust(ind, pcts, hid) : pcts \in [1..ind.num_containers -> AdjustPcts]}
           ELSE {Unmutated(ind)}
      [] type = "shuffle" ->
           LET len == Len(ind.rectangle_order)
           IN IF len > 2
              THEN UNION {
                     UNION {
                       {MutShuffle(ind, start_idx, sh) :
                           sh \in Shuffles(SubSeq(ind.rectangle_order,
                                                  start_idx + 1, start_idx + size))} :
                       start_idx \in 0..(len - size)} :
                     size \in (len \div 3)..((len * 2) \div 3)}
              ELSE {Unmutated(ind)}
      [] type = "random_heights" ->
           IF ind.num_containers > 0
           THEN {MutRandomHeights(ind, low, hid) : low \in [1..ind.num_containers -> BOOLEAN]}
           ELSE {Unmutated(ind)}

(***************************************************************************)
(* The individuals alive at a point of the program, and list identities.   *)
(***************************************************************************)
Roots ==
    [population |-> population, new_population |-> new_population,
     best_individual |-> best_individual,
     parent1 |-> parent1, parent2 |-> parent2, child1 |-> child1, child2 |-> child2]

Singles(h) ==
    SelectSeq(<<h.best_individual, h.parent1, h.parent2, h.child1, h.child2>>,
              LAMBDA x : x # None)

LiveInds(h) == h.population \o h.new_population \o Singles(h)

IdsOf(ind) == {ind.oid, ind.hid, ind.cid}
UsedIds(h) == UNION {IdsOf(x) : x \in Range(LiveInds(h))}

\* the k smallest identities, from n on, that no live list has
RECURSIVE FreshFrom(_, _, _)
FreshFrom(S, k, n) ==
    IF k = 0 THEN <<>>
    ELSE IF n \in S THEN FreshFrom(S, k, n + 1)
    ELSE <<n>> \o FreshFrom(S, k - 1, n + 1)

Fresh(h, k) == FreshFrom(UsedIds(h), k, 1)

\* a write into the list objects oh (heights) and oo (order) as seen by holder x
SeenBy(x, oh, oo, out) ==
    IF x = None THEN x
    ELSE [x EXCEPT !.container_heights = IF x.hid = oh THEN out.heights_obj ELSE @,
                   !.rectangle_order = IF x.oid = oo THEN out.order_obj ELSE @]

Written(h, oh, oo, out) ==
    [population |-> List([i \in 1..Len(h.population) |-> SeenBy(h.population[i], oh, oo, out)]),
     new_population |->
         List([i \in 1..Len(h.new_population) |-> SeenBy(h.new_population[i], oh, oo, out)]),
     best_individual |-> SeenBy(h.best_individual, oh, oo, out),
     parent1 |-> SeenBy(h.parent1, oh, oo, out),
     parent2 |-> SeenBy(h.parent2, oh, oo, out),
     child1 |-> SeenBy(h.child1, oh, oo, out),
     child2 |-> SeenBy(h.child2, oh, oo, out)]

\* List identities are names: only their equality is observable.  Commit
\* renames them in the order of their first appearance among the live lists.
IdList(h) ==
    LET live == LiveInds(h)
    IN List([k \in 1..(3 * Len(live)) |->
                LET x == live[((k - 1) \div 3) + 1]
                IN CASE k % 3 = 1 -> x.oid [] k % 3 = 2 -> x.hid [] OTHER -> x.cid])

\* the renaming, as a function on the identities of ids
RECURSIVE Numbering(_, _, _)
Numbering(ids, k, m) ==
    IF k > Len(ids) THEN m
    ELSE IF ids[k] \in DOMAIN m THEN Numbering(ids, k + 1, m)
    ELSE Numbering(ids, k + 1, m @@ (ids[k] :> Cardinality(DOMAIN m) + 1))

Renamed(m, x) ==
    IF x = None THEN x
    ELSE [x EXCEPT !.oid = m[@], !.hid = m[@], !.cid = m[@]]

RenamedAll(m, s) == List([i \in 1..Len(s) |-> Renamed(m, s[i])])

\* the next values of the variables that hold individuals
Commit(h) ==
    \E m \in {Numbering(IdList(h), 1, <<>>)} :
       /\ population' = RenamedAll(m, h.population)
       /\ new_population' = RenamedAll(m, h.new_population)
       /\ best_individual' = Renamed(m, h.best_individual)
       /\ parent1' = Renamed(m, h.parent1)
       /\ parent2' = Renamed(m, h.parent2)
       /\ child1' = Renamed(m, h.child1)
       /\ child2' = Renamed(m, h.child2)

\* the holders after one mutation operator is applied to holder w (lines 735-806)
Mutations(h, w) ==
    UNION {{[Written(h, h[w].hid, h[w].oid, out) EXCEPT ![w] = out.ind] :
               out \in MutationOutcomes(type, h[w], Fresh(h, 1)[1])} :
           type \in MutationTypes}

\* the holders after self.mutate on holder w, with the draw of line 734
mutate(h, w) ==
    (IF prob.mutation_rate < 100 THEN {h} ELSE {})
        \cup (IF prob.mutation_rate > 0 THEN Mutations(h, w) ELSE {})

(***************************************************************************)
(* Problem instances.                                                      *)
(***************************************************************************)
Rect(w, h) == [width |-> w, height |-> h]

ScenarioA == [rectangles |-> <<Rect(4, 3), Rect(3, 2)>>, container_width |-> 7,
              max_total_height |-> 10, max_containers |-> 1]
ScenarioB == [rectangles |-> <<Rect(8, 2)>>, container_width |-> 7,
              max_total_height |-> 10, max_containers |-> MaxContainers]
ScenarioC == [rectangles |-> <<Rect(5, 3), Rect(5, 3)>>, container_width |-> 5,
              max_total_height |-> 10, max_containers |-> 1]
WideMix   == [rectangles |-> <<Rect(4, 3), Rect(3, 2), Rect(2, 5), Rect(6, 1)>>,
              container_width |-> 5,
              max_total_height |-> 12, max_containers |-> MaxContainers]
General   == [rectangles |-> <<Rect(2, 3), Rect(3, 2), Rect(2, 5), Rect(4, 1), Rect(3, 1)>>,
              container_width |-> 5,
              max_total_height |-> 12, max_containers |-> MaxContainers]

\* two rectangles that stack to exactly max_total_height
Tight     == [rectangles |-> <<Rect(5, 5), Rect(5, 5)>>, container_width |-> 5,
              max_total_height |-> 10, max_containers |-> 1]

PackProblems == {ScenarioA, ScenarioB, ScenarioC, WideMix, General, Tight}

\* rates are in per cent
Breeding  == [rectangles |-> <<Rect(2, 3), Rect(3, 2), Rect(2, 5)>>,
              container_width |-> 5,
              max_total_height |-> 12, max_containers |-> MaxContainers,
              mutation_rate |-> 40, crossover_rate |-> 75]

\* height budgets an encoding can carry into pack_rectangles
Budgets == {EqualSplit(1), EqualSplit(2), EqualSplit(4)}
HeightLists == UNION {[1..n -> Budgets] : n \in 1..prob.max_containers}

PackInputs ==
    {[Individual(n, <<0, 0, 0>>) EXCEPT !.rectangle_order = o, !.container_heights = h] :
        n \in 1..prob.max_containers, o \in Perms(RectIds), h \in HeightLists}

(***************************************************************************)
(* SpecPack: pack_rectangles applied to every input above, one rectangle   *)
(* of rectangle_order per step, then the height optimisation.              *)
(***************************************************************************)
Idle ==
    /\ population = <<>>
    /\ new_population = <<>>
    /\ best_individual = None
    /\ parent1 = None /\ parent2 = None
    /\ child1 = None /\ child2 = None
    /\ generation = 0
    /\ stagnation_counter = 0
    /\ best_fitness_history = <<>>
    /\ current_mutation = 0
    /\ ops = 0

evolveVars == <<population, new_population, best_individual, parent1, parent2,
                child1, child2, generation, stagnation_counter,
                best_fitness_history, current_mutation, ops>>

InitPack ==
    /\ prob \in PackProblems
    /\ pk \in {PackStart(ind) : ind \in PackInputs}
    /\ pc = "pack"
    /\ Idle

PackPlace ==
    /\ pc = "pack"
    /\ pk.pos < NumRects
    /\ pk' = PackStep(pk)
    /\ UNCHANGED <<prob, pc, evolveVars>>

PackOptimize ==
    /\ pc = "pack"
    /\ pk.pos = NumRects
    /\ \E jit \in Jitters(Len(pk.containers)) :
          pk' = [pk EXCEPT !.containers = OptimizeHeights(pk.containers, jit)]
    /\ pc' = "packed"
    /\ UNCHANGED <<prob, evolveVars>>

NextPack == PackPlace \/ PackOptimize

SpecPack == InitPack /\ [][NextPack]_vars

(***************************************************************************)
(* SpecRepack: evaluate_fitness, and with it pack_rectangles, applied      *)
(* twice to one encoding, each time with its own jitter draws; child1 and  *)
(* child2 hold the encoding as the first and the second call left it.      *)
(***************************************************************************)
repackFrame == <<prob, pk, population, new_population, best_individual, parent1,
                 parent2, generation, stagnation_counter, best_fitness_history,
                 current_mutation, ops>>

EvaluateFirst ==
    /\ pc = "pack"
    /\ \E jit \in Jitters(pk.ind.num_containers) :
          child1' = evaluate_fitness(pk.ind, jit, 1)
    /\ pc' = "once"
    /\ UNCHANGED <<child2, repackFrame>>

EvaluateAgain ==
    /\ pc = "once"
    /\ \E jit \in Jitters(child1.num_containers) :
          child2' = evaluate_fitness(child1, jit, 2)
    /\ pc' = "twice"
    /\ UNCHANGED <<child1, repackFrame>>

NextRepack == EvaluateFirst \/ EvaluateAgain

SpecRepack == InitPack /\ [][NextRepack]_vars

(***************************************************************************)
(* SpecHeights: the placement loop of pack_rectangles, then                *)
(* get_minimum_height applied to the containers it leaves (items and       *)
(* x-offsets fixed from then on) while the heights in the rectangle table  *)
(* it is passed grow, one unit of one rectangle per step.                  *)
(***************************************************************************)
GrowRectangle ==
    /\ pc = "pack"
    /\ pk.pos = NumRects
    /\ ops < MaxGrowth
    /\ \E r \in RectIds :
          prob' = [prob EXCEPT !.rectangles[r + 1].height = @ + 1]
    /\ ops' = ops + 1
    /\ UNCHANGED <<pc, pk, population, new_population, best_individual, parent1,
                   parent2, child1, child2, generation, stagnation_counter,
                   best_fitness_history, current_mutation>>

NextHeights == PackPlace \/ GrowRectangle

SpecHeights == InitPack /\ [][NextHeights]_vars

(***************************************************************************)
(* SpecEnc: the operators on encodings (construction, initialize_random,   *)
(* copy, crossover, the six mutation operators), applied to two parents as *)
(* the breeding loop of evolve applies them (lines 886-901).  parent1 is   *)
(* constructed and shuffled, parent2 constructed only: the operators treat *)
(* rectangle ids alike, so every pair of orders is such a pair up to a     *)
(* renaming of the ids.                                                    *)
(***************************************************************************)
encIdle ==
    /\ pk = None
    /\ population = <<>>
    /\ new_population = <<>>
    /\ best_individual = None
    /\ generation = 0
    /\ stagnation_counter = 0
    /\ best_fitness_history = <<>>
    /\ current_mutation = 0

encFrame == <<prob, pk, population, new_population, best_individual, generation,
              stagnation_counter, best_fitness_history, current_mutation>>

InitEnc ==
    /\ prob = Breeding
    /\ \E n \in 1..prob.max_containers :
       \E o \in Shuffles(List([i \in 1..NumRects |-> i - 1])) :
          parent1 = initialize_random(Individual(n, <<1, 2, 3>>), o)
    /\ \E n \in 1..prob.max_containers : parent2 = Individual(n, <<4, 5, 6>>)
    /\ child1 = None /\ child2 = None
    /\ pc = "selected"
    /\ ops = 0
    /\ encIdle

\* lines 652-653: random.random() > crossover_rate
CrossoverSkip ==
    /\ pc = "selected"
    /\ prob.crossover_rate < 100
    /\ \E n1, n2 \in 1..prob.max_containers :
          LET ids == Fresh(Roots, 6)
          IN Commit([Roots EXCEPT
                       !.child1 = copy(parent1, n1, SubSeq(ids, 1, 3)),
                       !.child2 = copy(parent2, n2, SubSeq(ids, 4, 6))])
    /\ pc' = "copied"
    /\ UNCHANGED <<ops, encFrame>>

\* lines 655-714
Crossover ==
    /\ pc = "selected"
    /\ prob.crossover_rate > 0
    /\ NumRects >= 2
    /\ \E numCoin \in BOOLEAN :
       \E coins \in CoinLists(Max2(parent1.num_containers, parent2.num_containers)) :
       \E cut \in CutPoints(NumRects) :
          LET ids == Fresh(Roots, 6)
              cs == CrossChildren(parent1, parent2, numCoin, coins, cut,
                                  SubSeq(ids, 1, 3), SubSeq(ids, 4, 6))
          IN Commit([Roots EXCEPT !.child1 = cs[1], !.child2 = cs[2]])
    /\ pc' = "bred"
    /\ UNCHANGED <<ops, encFrame>>

\* one mutation operator applied to child1 (lines 735-806)
EncMutate ==
    /\ pc \in {"bred", "copied", "mutated"}
    /\ ops < MaxOps
    /\ \E h \in Mutations(Roots, "child1") : Commit(h)
    /\ pc' = "mutated"
    /\ ops' = ops + 1
    /\ UNCHANGED encFrame

NextEnc == CrossoverSkip \/ Crossover \/ EncMutate

SpecEnc == InitEnc /\ [][NextEnc]_vars

(***************************************************************************)
(* Spec: evolve (lines 808-918) on a two-rectangle instance with a single  *)
(* container.  Rates are in per cent.                                      *)
(***************************************************************************)
PopulationSize == 3
Generations == 2

Evolving == [rectangles |-> <<Rect(2, 3), Rect(3, 2)>>, container_width |-> 5,
             max_total_height |-> 5, max_containers |-> 1,
             mutation_rate |-> 40, crossover_rate |-> 75,
             population_size |-> PopulationSize, generations |-> Generations,
             elitism_rate |-> 34]

\* line 260
elitism_count == (prob.population_size * prob.elitism_rate) \div 100
\* line 874
random_count == Max2(1, prob.population_size \div 10)

\* lines 266-271 and 829-830, lines 876-879: a constructed, shuffled and
\* evaluated individual, over every draw
RandomEvaluated(ids) ==
    {evaluate_fitness(initialize_random(Individual(n, ids), o), jit, ids[3]) :
        n \in 1..prob.max_containers,
        o \in Shuffles(List([i \in 1..NumRects |-> i - 1])),
        jit \in Jitters(prob.max_containers)}

\* list.sort(key=fitness, reverse=True) is stable: x goes after the entries
\* that are at least as fit
RECURSIVE InsertByFitness(_, _)
InsertByFitness(s, x) ==
    IF s = <<>> THEN <<x>>
    ELSE IF s[1].fitness >= x.fitness THEN <<s[1]>> \o InsertByFitness(Tail(s), x)
    ELSE <<x>> \o s

RECURSIVE SortByFitness(_, _)
SortByFitness(s, acc) ==
    IF s = <<>> THEN acc ELSE SortByFitness(Tail(s), InsertByFitness(acc, s[1]))

loopFrame == <<prob, pk, generation, stagnation_counter, best_fitness_history,
               current_mutation, ops>>

Init ==
    /\ prob = Evolving
    /\ pc = "start"
    /\ pk = None
    /\ Idle

\* lines 826-834
InitializePopulation ==
    /\ pc = "start"
    /\ \E pop \in [1..prob.population_size -> RandomEvaluated(<<0, 0, 0>>)] :
          Commit([Roots EXCEPT
                    !.population =
                        List([i \in 1..prob.population_size |->
                                 [pop[i] EXCEPT !.oid = 3 * i - 2, !.hid = 3 * i - 1,
                                                !.cid = 3 * i]])])
    /\ pc' = "rank"
    /\ UNCHANGED loopFrame

\* lines 836-867: the head of one iteration of the generation loop
Rank ==
    /\ pc = "rank"
    /\ generation < prob.generations
    /\ LET sorted == SortByFitness(population, <<>>)
           improved == best_individual = None \/ sorted[1].fitness > best_individual.fitness
       IN \E n \in 1..prob.max_containers :
            LET best == IF improved
                        THEN copy(sorted[1], n, Fresh([Roots EXCEPT !.best_individual = None], 3))
                        ELSE best_individual
                stagnation == IF improved THEN 0 ELSE stagnation_counter + 1
            IN /\ Commit([Roots EXCEPT !.population = sorted, !.best_individual = best,
                                       !.new_population = <<>>])
               /\ stagnation_counter' = stagnation
               /\ best_fitness_history' = Append(best_fitness_history, best.fitness)
               /\ current_mutation' =
                      IF stagnation > 15
                      THEN Min2(80, (prob.mutation_rate * (20 + stagnation)) \div 20)
                      ELSE prob.mutation_rate
    /\ pc' = "elitism"
    /\ UNCHANGED <<prob, pk, generation, ops>>

\* the copies of population[1..k] appended to new_population (lines 870-871)
RECURSIVE ElitesAdded(_, _)
ElitesAdded(h, i) ==
    IF i > elitism_count THEN {h}
    ELSE UNION {ElitesAdded([h EXCEPT !.new_population =
                                Append(@, copy(h.population[i], n, Fresh(h, 3)))], i + 1) :
                   n \in 1..prob.max_containers}

Elitism ==
    /\ pc = "elitism"
    /\ \E h \in ElitesAdded(Roots, 1) : Commit(h)
    /\ pc' = "immigrate"
    /\ UNCHANGED loopFrame

\* lines 874-881
RECURSIVE ImmigrantsAdded(_, _)
ImmigrantsAdded(h, k) ==
    IF k = 0 \/ Len(h.new_population) >= prob.population_size THEN {h}
    ELSE UNION {ImmigrantsAdded([h EXCEPT !.new_population = Append(@, x)], k - 1) :
                   x \in RandomEvaluated(Fresh(h, 3))}

Immigrate ==
    /\ pc = "immigrate"
    /\ \E h \in ImmigrantsAdded(Roots, random_count) : Commit(h)
    /\ pc' = "loop"
    /\ UNCHANGED loopFrame

\* lines 886-888; i and j are the draws of random.choice
SelectRandom ==
    /\ pc = "loop"
    /\ Len(new_population) < prob.population_size
    /\ \E i, j \in 1..Len(population) :
       \E n1, n2 \in 1..prob.max_containers :
          LET ids == Fresh(Roots, 6)
          IN Commit([Roots EXCEPT
                       !.parent1 = copy(population[i], n1, SubSeq(ids, 1, 3)),
                       !.parent2 = copy(population[j], n2, SubSeq(ids, 4, 6))])
    /\ pc' = "selected"
    /\ UNCHANGED loopFrame

TournamentSizes == 2..5

\* lines 630-631: the members a tournament over the positions T can return
Winners(T) == {i \in T : \A j \in T : population[i].fitness >= population[j].fitness}
Tournaments(size) == {T \in SUBSET (1..Len(population)) : Cardinality(T) = size}

\* lines 890-893
SelectTournament ==
    /\ pc = "loop"
    /\ Len(new_population) < prob.population_size
    /\ \E tournament_size \in TournamentSizes :
          /\ tournament_size <= Len(population)
          /\ \E T1, T2 \in Tournaments(tournament_size) :
             \E i \in Winners(T1), j \in Winners(T2) :
             \E n1, n2 \in 1..prob.max_containers :
                LET ids == Fresh(Roots, 6)
                IN Commit([Roots EXCEPT
                             !.parent1 = copy(population[i], n1, SubSeq(ids, 1, 3)),
                             !.parent2 = copy(population[j], n2, SubSeq(ids, 4, 6))])
    /\ pc' = "selected"
    /\ UNCHANGED loopFrame

\* line 630: random.sample raises ValueError when the sample is larger than
\* the population
SelectRaises ==
    /\ pc = "loop"
    /\ Len(new_population) < prob.population_size
    /\ \E tournament_size \in TournamentSizes : tournament_size > Len(population)
    /\ pc' = "raised"
    /\ UNCHANGED <<population, new_population, best_individual, parent1, parent2,
                   child1, child2, loopFrame>>

\* lines 898-899; parent1 and parent2 are dead after line 895
MutateChild1 ==
    /\ pc \in {"bred", "copied"}
    /\ \E h \in (IF current_mutation < 100 THEN {Roots} ELSE {})
                   \cup (IF current_mutation > 0 THEN mutate(Roots, "child1") ELSE {}) :
          Commit([h EXCEPT !.parent1 = None, !.parent2 = None])
    /\ pc' = "mutated1"
    /\ UNCHANGED loopFrame

\* one pass of lines 906-907
ExtraPass(h) == UNION {mutate(h1, "child2") : h1 \in mutate(h, "child1")}

\* lines 900-907
MutateChild2 ==
    /\ pc = "mutated1"
    /\ \E h \in (IF current_mutation < 100 THEN {Roots} ELSE {})
                   \cup (IF current_mutation > 0 THEN mutate(Roots, "child2") ELSE {}) :
       \E g \in IF stagnation_counter > 25
                THEN {h} \cup ExtraPass(h) \cup UNION {ExtraPass(h1) : h1 \in ExtraPass(h)}
                ELSE {h} :
          Commit(g)
    /\ pc' = "mutated2"
    /\ UNCHANGED loopFrame

\* lines 909-910
EvaluateChildren ==
    /\ pc = "mutated2"
    /\ \E jit1 \in Jitters(child1.num_containers), jit2 \in Jitters(child2.num_containers) :
          LET ids == Fresh(Roots, 2)
          IN Commit([Roots EXCEPT !.child1 = evaluate_fitness(child1, jit1, ids[1]),
                                  !.child2 = evaluate_fitness(child2, jit2, ids[2])])
    /\ pc' = "evaluated"
    /\ UNCHANGED loopFrame

\* lines 912-914 with the room test of line 913 left out
ChildrenAppendedBoth(np, c1, c2) == np \o <<c1, c2>>

\* lines 912-914: child1 always, child2 only while there is room
ChildrenAppended(np, c1, c2) ==
    IF Len(np) + 1 < prob.population_size
    THEN np \o <<c1, c2>>
    ELSE Append(np, c1)

\* lines 912-914; child1 and child2 are dead afterwards
AppendChildren ==
    /\ pc = "evaluated"
    /\ Commit([Roots EXCEPT
                 !.new_population = ChildrenAppended(new_population, child1, child2),
                 !.child1 = None, !.child2 = None])
    /\ pc' = "loop"
    /\ UNCHANGED loopFrame

\* line 916
Replace ==
    /\ pc = "loop"
    /\ Len(new_population) >= prob.population_size
    /\ Commit([Roots EXCEPT !.population = new_population, !.new_population = <<>>])
    /\ generation' = generation + 1
    /\ pc' = "rank"
    /\ UNCHANGED <<prob, pk, stagnation_counter, best_fitness_history, current_mutation, ops>>

\* line 918
Return ==
    /\ pc = "rank"
    /\ generation >= prob.generations
    /\ pc' = "done"
    /\ UNCHANGED <<prob, pk, population, new_population, best_individual, parent1, parent2,
                   child1, child2, generation, stagnation_counter, best_fitness_history,
                   current_mutation, ops>>

Next ==
    \/ InitializePopulation \/ Rank \/ Elitism \/ Immigrate
    \/ SelectRandom \/ SelectTournament \/ SelectRaises
    \/ CrossoverSkip \/ Crossover
    \/ MutateChild1 \/ MutateChild2 \/ EvaluateChildren \/ AppendChildren
    \/ Replace \/ Return

Spec == Init /\ [][Next]_vars

(***************************************************************************)
(* evolve over several elitism rates, one generation each: with three      *)
(* encodings the rates give 0, 1, 2 and 3 elites, so that the last pair of *)
(* children contributes two encodings (rate 0), one (rate 34) or the       *)
(* breeding loop is not entered at all (rates 67 and 100).                 *)
(***************************************************************************)
ElitismRates == {0, 34, 67, 100}

SizedProblems ==
    {[Evolving EXCEPT !.elitism_rate = e, !.generations = 1] : e \in ElitismRates}

InitSized ==
    /\ prob \in SizedProblems
    /\ pc = "start"
    /\ pk = None
    /\ Idle

SpecSized == InitSized /\ [][Next]_vars

(***************************************************************************)
(* SpecShallow: the operators of SpecEnc on an instance with               *)
(* max_total_height 1 and up to three containers.                          *)
(***************************************************************************)
Shallow ==
    [Breeding EXCEPT !.rectangles = <<Rect(2, 3), Rect(3, 2)>>,
                     !.max_total_height = 1,
                     !.max_containers = 3]

InitShallow ==
    /\ prob = Shallow
    /\ \E n \in 1..prob.max_containers :
       \E o \in Shuffles(List([i \in 1..NumRects |-> i - 1])) :
          parent1 = initialize_random(Individual(n, <<1, 2, 3>>), o)
    /\ \E n \in 1..prob.max_containers : parent2 = Individual(n, <<4, 5, 6>>)
    /\ child1 = None /\ child2 = None
    /\ pc = "selected"
    /\ ops = 0
    /\ encIdle

SpecShallow == InitShallow /\ [][NextEnc]_vars

(***************************************************************************)
(* SpecCross: crossover performed on two encodings as a population holds   *)
(* them: constructed with 1 to 3 containers, their height lists as         *)
(* constructed or as one 'heights' or 'adjust' mutation left them.         *)
(***************************************************************************)
ThreeContainers == [Breeding EXCEPT !.max_containers = 3]

HeightMutations == {"heights", "adjust"}

CrossInputs(ids) ==
    {Individual(n, ids) : n \in 1..prob.max_containers}
      \cup UNION {{o.ind : o \in MutationOutcomes(t, Individual(n, ids), ids[2])} :
                    <<t, n>> \in HeightMutations \X (1..prob.max_containers)}

InitCross ==
    /\ prob = ThreeContainers
    /\ parent1 \in CrossInputs(<<1, 2, 3>>)
    /\ parent2 \in CrossInputs(<<4, 5, 6>>)
    /\ child1 = None /\ child2 = None
    /\ pc = "selected"
    /\ ops = 0
    /\ encIdle

SpecCross == InitCross /\ [][Crossover]_vars

(***************************************************************************)
(* SpecConfig: the constructor (lines 229-262) applied to configurations   *)
(* valid and invalid.  It stores its arguments, derives elitism_count and  *)
(* leaves population empty; it has no raise statement and calls nothing    *)
(* that could raise on these values.                                       *)
(***************************************************************************)
ConfigContainers == -1..MaxContainers
ConfigWidths == {-1, 0, 5}
ConfigRectangles == {<<>>, <<Rect(2, 3)>>, <<Rect(2, 3), Rect(3, 2)>>}

Configurations ==
    {[Evolving EXCEPT !.max_containers = mc, !.container_width = w,
                      !.rectangles = rs, !.population_size = n] :
        mc \in ConfigContainers, w \in ConfigWidths, rs \in ConfigRectangles,
        n \in 1..PopulationSize}

InitConfig ==
    /\ prob \in Configurations
    /\ pc = "new"
    /\ pk = None
    /\ Idle

\* __init__: the arguments become the fields (prob), population = [] and
\* best_individual = None; control returns to the caller
Construct ==
    /\ pc = "new"
    /\ population' = <<>>
    /\ best_individual' = None
    /\ pc' = "start"
    /\ UNCHANGED <<prob, pk, new_population, parent1, parent2, child1, child2,
                   generation, stagnation_counter, best_fitness_history,
                   current_mutation, ops>>

SpecConfig == InitConfig /\ [][Construct]_vars

(***************************************************************************)
(* evolve on a budget below the rectangles' height: no encoding places a   *)
(* rectangle (the 'heights' mutation never raises a budget above           *)
(* max_total_height), so every evaluation takes the early return.          *)
(***************************************************************************)
LowBudget ==
    [Evolving EXCEPT !.rectangles = <<Rect(2, 5), Rect(3, 5)>>,
                     !.max_total_height = 4]

InitLowBudget ==
    /\ prob = LowBudget
    /\ pc = "start"
    /\ pk = None
    /\ Idle

SpecLowBudget == InitLowBudget /\ [][Next]_vars

(***************************************************************************)
(* SpecStagnant: evolve on the instance where nothing is ever placed, for  *)
(* enough generations to take the stagnation counter beyond 15, over       *)
(* several base mutation rates (per cent).                                 *)
(***************************************************************************)
BaseRates == {0, 40, 90}

InitStagnant ==
    /\ prob \in {[LowBudget EXCEPT !.mutation_rate = r,
                                    !.generations = StagnantGenerations] : r \in BaseRates}
    /\ pc = "start"
    /\ pk = None
    /\ Idle

SpecStagnant == InitStagnant /\ [][Next]_vars

(***************************************************************************)
(* Claims about pack_rectangles (checked under SpecPack).                  *)
(***************************************************************************)
Packed == pc = "packed"
PkContainers == Range(pk.containers)
PkItems(c) == Range(c.bottom_rectangles) \cup Range(c.top_rectangles)

\* C2: no container returned by pack_rectangles has a clash
\* (_has_rectangle_clashes is false for each of them).
C2_NoClash ==
    Packed => \A c \in PkContainers : ~has_rectangle_clashes(c)

\* a returned container with an x-overlapping bottom/top pair, sitting exactly
\* at the sum of the two heights
C2_Witness ==
    /\ Packed
    /\ \E c \in PkContainers :
          \E b \in Range(c.bottom_rectangles) : \E t \in Range(c.top_rectangles) :
              /\ XOverlapItems(b, t)
              /\ c.height = RectH(b[1]) + RectH(t[1])

\* C3: a rectangle wider than container_width is on no edge of any container,
\* at any point of pack_rectangles; in scenario B nothing is ever placed.
C3_WideNeverPlaced ==
    /\ \A c \in PkContainers : \A it \in PkItems(c) : RectW(it[1]) <= prob.container_width
    /\ (prob = ScenarioB => pk.placed_count = 0)

\* the wide rectangle was processed between placed ones, in two containers
C3_Witness ==
    /\ Packed
    /\ pk.ind.num_containers = 2
    /\ pk.placed_count = 3
    /\ \E r \in RectIds : RectW(r) > prob.container_width
                          /\ pk.ind.rectangle_order[2] = r
                          /\ pk.rectangle_assignments[r + 1] = -1

\* C4: every item on an edge lies within the container's width.
C4_ItemsWithinWidth ==
    \A c \in PkContainers : \A it \in PkItems(c) :
        it[2] >= 0 /\ it[2] + RectW(it[1]) <= c.width

\* a returned packing in which the first-fit scan put a bottom item at a
\* positive offset and the alignment strategy put a top item at a positive
\* offset, ending where a bottom item of its container ends
C4_Witness ==
    /\ Packed
    /\ \E c \in PkContainers : \E b \in Range(c.bottom_rectangles) : b[2] > 0
    /\ \E c \in PkContainers : \E t \in Range(c.top_rectangles) :
          /\ t[2] > 0
          /\ \E b \in Range(c.bottom_rectangles) :
                b[2] # t[2] /\ b[2] + RectW(b[1]) = t[2] + RectW(t[1])

\* C5: after pack_rectangles every container that holds an item is at least
\* get_minimum_height high, whatever the jitter.
C5_HeightAtLeastMinimum ==
    Packed => \A c \in PkContainers :
                 PkItems(c) # {} => c.height >= get_minimum_height(c)

\* a returned container with items on both edges and a positive jitter
C5_Witness ==
    /\ Packed
    /\ \E c \in PkContainers :
          /\ c.bottom_rectangles # <<>> /\ c.top_rectangles # <<>>
          /\ c.height > get_minimum_height(c)

(***************************************************************************)
(* Claims about the operators on encodings (checked under SpecEnc).        *)
(***************************************************************************)
Encodings == Range(LiveInds(Roots))
IsPermutation(order) == Len(order) = NumRects /\ Range(order) = RectIds

\* C1: the rectangle_order of every encoding obtained by construction,
\* initialize_random, copy, crossover and sequences of mutation operators is
\* a permutation of 0..N-1: each id exactly once, no -1 left over.
C1_OrderIsPermutation == \A e \in Encodings : IsPermutation(e.rectangle_order)

\* a crossover was performed (child2 has neither parent's order) and child1
\* then went through two mutation operators that left it another order
C1_Witness ==
    /\ pc = "mutated" /\ ops >= 2
    /\ child2.rectangle_order \notin {parent1.rectangle_order, parent2.rectangle_order}
    /\ child1.rectangle_order \notin {parent1.rectangle_order, parent2.rectangle_order,
                                      child2.rectangle_order}

\* C7: the height list of every encoding has as many entries as the encoding
\* has containers.
C7_HeightsMatchCount ==
    \A e \in Encodings : Len(e.container_heights) = e.num_containers

\* C8: Individual.copy returns an encoding equal to the original in container
\* count, height list, rectangle order, fitness and evaluated containers; the
\* children of a skipped crossover are such copies of their parents.
SameEncoding(a, b) ==
    /\ a.num_containers = b.num_containers
    /\ a.container_heights = b.container_heights
    /\ a.rectangle_order = b.rectangle_order
    /\ a.fitness = b.fitness
    /\ a.containers = b.containers

C8_CopyEqualsOriginal ==
    pc = "copied" => SameEncoding(child1, parent1) /\ SameEncoding(child2, parent2)

\* C6: the total_height_used of an evaluated encoding, the sum of the heights
\* of its containers after packing, is at most max_total_height; stated here
\* for a freshly constructed encoding (equal budgets) in any rectangle order.
C6_TotalHeightWithinMax ==
    (/\ Packed
     /\ pk.ind.container_heights =
            Individual(pk.ind.num_containers, <<0, 0, 0>>).container_heights)
        => Evaluated(pk.ind, pk, 0).total_height_used <= prob.max_total_height * HScale

(***************************************************************************)
(* Claims about evolve (checked under Spec).                               *)
(***************************************************************************)
\* no list identity occurs twice among the lists of the live encodings
NoSharedLists == \E ids \in {IdList(Roots)} : Cardinality(Range(ids)) = Len(ids)

Genes(x) == <<x.num_containers, x.container_heights, x.rectangle_order>>
Content(x) == IF x = None THEN x ELSE [x EXCEPT !.oid = 0, !.hid = 0, !.cid = 0]

\* a step that mutates or re-evaluates the children leaves the population, the
\* next population, the best-ever encoding and the other child as they were
OthersUntouched ==
    pc \in {"bred", "copied", "mutated1", "mutated2"} =>
        /\ population' = population
        /\ new_population' = new_population
        /\ best_individual' = best_individual
        /\ pc \in {"bred", "copied"} => Content(child2') = Content(child2)
        /\ pc = "mutated1" => Content(child1') = Content(child1)

\* C9: no two distinct encodings share a height list, a rectangle-order list
\* or a container list, so mutating or re-evaluating one encoding leaves every
\* other encoding, the best-ever one included, unchanged.
C9_NoAliasing == [][NoSharedLists' /\ OthersUntouched]_vars

\* child1, bred from copies of population members that all carry one order,
\* got another order by mutation while an elite copy and the best-ever copy exist
C9_Witness ==
    /\ pc = "mutated1"
    /\ best_individual # None /\ Len(new_population) > elitism_count
    /\ \A i \in 1..Len(population) : population[i].rectangle_order = child2.rectangle_order
    /\ child1.rectangle_order # child2.rectangle_order

\* C10: at a generation's replacement, each of the top elitism_count encodings
\* of the ranked population has, in the next population, an encoding with the
\* same container count, height list, rectangle order and fitness.
C10_ElitesPreserved ==
    (pc = "loop" /\ Len(new_population) >= prob.population_size) =>
        \A i \in 1..elitism_count :
           \E j \in 1..Len(new_population) :
              /\ Genes(new_population[j]) = Genes(population[i])
              /\ new_population[j].fitness = population[i].fitness

\* C11: after initialisation and after every generation's replacement the
\* population holds exactly population_size encodings, for elitism rates from
\* 0 to 1 and whether the last pair of children contributes one or two.
C11_PopulationSizeKept ==
    pc \in {"rank", "elitism", "immigrate", "loop", "done"} =>
        Len(population) = prob.population_size

\* a replacement happened with no elites, one immigrant and both children of
\* the one pair bred
C11_Witness ==
    /\ pc = "rank" /\ generation = 1
    /\ elitism_count = 0
    /\ Len(population) = prob.population_size

\* C12: on a valid input evolve never raises, and when it returns it has run
\* exactly `generations` generations and the fitness history holds one entry
\* per generation.
C12_RunsToCompletion ==
    /\ pc # "raised"
    /\ pc = "done" =>
          /\ generation = prob.generations
          /\ Len(best_fitness_history) = prob.generations

\* the encodings evaluate_fitness has been applied to
EvaluatedEncodings ==
    Range(population) \cup Range(new_population)
        \cup (IF pc = "evaluated" THEN {child1, child2} ELSE {})

\* C13: an encoding whose packing placed no rectangle has fitness exactly
\* -1000, still holds one container per container_count and records
\* rectangles_placed = 0; it stays in the population, where selection draws it.
C13_ZeroPlacedSentinel ==
    \A x \in EvaluatedEncodings :
       (\A i \in 1..Len(x.containers) : ~HasItems(x.containers[i])) =>
          /\ x.fitness = -1000 * FScale
          /\ x.rectangles_placed = 0
          /\ Len(x.containers) = x.num_containers

\* after a replacement every member of the population placed nothing, and
\* selection copied two of them as parents
C13_Witness ==
    /\ pc = "selected" /\ generation = 1
    /\ \A i \in 1..Len(population) :
          population[i].rectangles_placed = 0 /\ population[i].fitness = -1000 * FScale
    /\ parent1.rectangles_placed = 0 /\ parent1.fitness = -1000 * FScale
    /\ parent2.rectangles_placed = 0

\* the bottom and top item lists (rectangle id, x-offset) of every container
Placements(x) ==
    [i \in 1..Len(x.containers) |->
        <<x.containers[i].bottom_rectangles, x.containers[i].top_rectangles>>]

Heights(x) == [i \in 1..Len(x.containers) |-> x.containers[i].height]

\* every occupied container stands at exactly its minimum height: all jitter
\* draws of the evaluation were 0
Unjittered(x) ==
    \A i \in 1..Len(x.containers) :
       HasItems(x.containers[i]) =>
          x.containers[i].height = get_minimum_height(x.containers[i])

\* C15: packing the same rectangle order and height budgets twice gives the
\* same edge and x-offset for every rectangle and the same placed count,
\* whatever the jitter draws; when all draws are 0 in both runs the container
\* heights are the same too.
C15_PackingRepeats ==
    pc = "twice" =>
        /\ Placements(child2) = Placements(child1)
        /\ child2.rectangles_placed = child1.rectangles_placed
        /\ (Unjittered(child1) /\ Unjittered(child2)) => Heights(child2) = Heights(child1)

\* two runs without jitter over two occupied containers, one of them with
\* rectangles on both edges, whose heights differ from the budgets
C15_Witness ==
    /\ pc = "twice"
    /\ Unjittered(child1) /\ Unjittered(child2)
    /\ Len(child2.containers) = 2
    /\ HasItems(child2.containers[1]) /\ HasItems(child2.containers[2])
    /\ \E i \in 1..2 : child2.containers[i].top_rectangles # <<>>
    /\ Heights(child2) # child2.container_heights

\* the packed encoding carries the budgets its constructor gave it
FreshlyInitialised ==
    pk.ind.container_heights =
        Individual(pk.ind.num_containers, <<0, 0, 0>>).container_heights

\* the x-span of an item (rectangle id, x-offset)
XSpan(it) == <<it[2], it[2] + RectW(it[1])>>

\* C16: with rectangles (4,3) and (3,2), container width 7, maximum height 10
\* and one container, packing a fresh encoding in either order puts both
\* rectangles on the bottom edge side by side, their x-spans disjoint and
\* together covering [0,7], nothing on the top edge, placed_count = 2, no clash.
C16_ScenarioA ==
    (prob = ScenarioA /\ Packed /\ FreshlyInitialised) =>
        /\ Len(pk.containers) = 1
        /\ pk.containers[1].top_rectangles = <<>>
        /\ Len(pk.containers[1].bottom_rectangles) = 2
        /\ {it[1] : it \in Range(pk.containers[1].bottom_rectangles)} = {0, 1}
        /\ \E a \in 1..6 :
              {XSpan(it) : it \in Range(pk.containers[1].bottom_rectangles)}
                  = {<<0, a>>, <<a, 7>>}
        /\ pk.placed_count = 2
        /\ ~has_rectangle_clashes(pk.containers[1])

\* the order (3,2) first: it sits at 0, the rectangle (4,3) at 3
C16_Witness ==
    /\ prob = ScenarioA /\ Packed /\ FreshlyInitialised
    /\ pk.ind.rectangle_order = <<1, 0>>
    /\ pk.containers[1].bottom_rectangles = <<<<1, 0>>, <<0, 3>>>>

\* C17: with two rectangles (5,3), container width 5, one container and
\* maximum height 10, packing a fresh encoding puts one rectangle on the
\* bottom edge and the other on the top edge, both at x-offset 0; the
\* container's get_minimum_height is 6 and it has no clash.
C17_ScenarioC ==
    (prob = ScenarioC /\ Packed /\ FreshlyInitialised) =>
        /\ Len(pk.containers) = 1
        /\ Len(pk.containers[1].bottom_rectangles) = 1
        /\ Len(pk.containers[1].top_rectangles) = 1
        /\ pk.containers[1].bottom_rectangles[1][2] = 0
        /\ pk.containers[1].top_rectangles[1][2] = 0
        /\ {pk.containers[1].bottom_rectangles[1][1],
            pk.containers[1].top_rectangles[1][1]} = {0, 1}
        /\ get_minimum_height(pk.containers[1]) = 6 * HScale
        /\ ~has_rectangle_clashes(pk.containers[1])

\* the second rectangle of the order went to the top edge and the container
\* was set to the minimum height 6 plus 2 % of jitter
C17_Witness ==
    /\ prob = ScenarioC /\ Packed /\ FreshlyInitialised
    /\ pk.ind.rectangle_order = <<1, 0>>
    /\ pk.containers[1].bottom_rectangles = <<<<1, 0>>>>
    /\ pk.containers[1].top_rectangles = <<<<0, 0>>>>
    /\ pk.containers[1].height = 612

\* get_minimum_height of every container of the layout, under the current
\* rectangle table
MinimumHeights == [i \in 1..Len(pk.containers) |-> get_minimum_height(pk.containers[i])]

\* at least the tallest occupant, and 0 for a container without items
FlooredByTallest ==
    \A i \in 1..Len(pk.containers) :
       /\ \A it \in PkItems(pk.containers[i]) : MinimumHeights[i] >= RectH(it[1])
       /\ ~HasItems(pk.containers[i]) => MinimumHeights[i] = 0

\* C18: for a container with fixed items and x-offsets get_minimum_height
\* does not decrease when the height of an occupant grows; it is at least the
\* height of the tallest occupant, and 0 for a container with no items.
C18_MinimumHeightMonotone ==
    [][/\ FlooredByTallest /\ FlooredByTallest'
       /\ pk' = pk =>
             \A i \in 1..Len(pk.containers) : MinimumHeights'[i] >= MinimumHeights[i]]_vars

\* after a rectangle grew, a container with both edges occupied whose
\* x-overlapping pairs need less height than its tallest occupant has
C18_Witness ==
    /\ pk.pos = NumRects /\ ops >= 1
    /\ \E c \in PkContainers :
          /\ c.bottom_rectangles # <<>> /\ c.top_rectangles # <<>>
          /\ MinHeightSum(c) > 0
          /\ \E it \in PkItems(c) : RectH(it[1]) > MinHeightSum(c)
          /\ get_minimum_height(c) > MinHeightSum(c)

InvalidConfiguration ==
    \/ prob.max_containers < 1
    \/ prob.container_width <= 0
    \/ prob.rectangles = <<>>

\* C19: constructing the optimizer with an invalid configuration
\* (max_containers < 1, container_width <= 0 or an empty rectangle list) is
\* rejected at construction time: no constructed optimizer holds one.
C19_InvalidConfigurationRejected ==
    InvalidConfiguration => pc \in {"new", "rejected"}

\* the height of child x at index i (1-based) is a parent's height at that
\* index or the pad value
HeightInPlace(x, i) ==
    \/ i <= Len(parent1.container_heights)
         /\ x.container_heights[i] = parent1.container_heights[i]
    \/ i <= Len(parent2.container_heights)
         /\ x.container_heights[i] = parent2.container_heights[i]
    \/ x.container_heights[i] = EqualSplit(x.num_containers)

\* C20: after a performed crossover each child's height at an index below its
\* container count is parent1's or parent2's height at that same index, or
\* the pad value max_total_height / container count; no parent height is
\* moved to another index.
C20_HeightsStayInPlace ==
    pc = "bred" =>
        \A x \in {child1, child2} :
           /\ Len(x.container_heights) = x.num_containers
           /\ \A i \in 1..x.num_containers : HeightInPlace(x, i)

\* every outcome of the 'adjust' and the 'random_heights' operator on x
RedistributionOutcomes(x) ==
    {o.ind : o \in MutationOutcomes("adjust", x, 0)
                      \cup MutationOutcomes("random_heights", x, 0)}

TakesAtBottom(c, r) == RectW(r) <= c.width /\ find_bottom_position(c, r) # <<>>
TakesAtTop(c, r) == RectW(r) <= c.width /\ find_top_position(c, r) # <<>>

\* the containers of p with container k replaced by c
OnlyChanged(p, k, c) == [p.containers EXCEPT ![k] = c]

\* one iteration of the placement loop, from p to q, handled rectangle r as
\* the claim says
PlacedAsOrdered(p, q, r) ==
    LET takers == {i \in 1..Len(p.containers) :
                      TakesAtBottom(p.containers[i], r) \/ TakesAtTop(p.containers[i], r)}
    IN IF takers = {}
       THEN /\ q.containers = p.containers
            /\ q.placed_count = p.placed_count
            /\ q.rectangle_assignments[r + 1] = -1
       ELSE \E k \in takers :
              /\ \A j \in takers : k <= j
              /\ q.placed_count = p.placed_count + 1
              /\ q.rectangle_assignments[r + 1] = k - 1
              /\ IF TakesAtBottom(p.containers[k], r)
                 THEN q.containers =
                        OnlyChanged(p, k,
                           [p.containers[k] EXCEPT !.bottom_rectangles =
                               Append(@, <<r, find_bottom_position(p.containers[k], r)[1]>>)])
                 ELSE q.containers =
                        OnlyChanged(p, k,
                           [p.containers[k] EXCEPT !.top_rectangles =
                               Append(@, <<r, find_top_position(p.containers[k], r)[1]>>)])

\* C22: pack_rectangles handles the rectangles strictly in rectangle_order;
\* each goes to the lowest-index container that can take it on either edge, on
\* the bottom edge whenever bottom placement succeeds there and on the top
\* edge only otherwise; a rectangle no container can take stays unplaced and
\* the loop goes on with the next one.
C22_PlacementOrder ==
    [][(pc = "pack" /\ pc' = "pack") =>
          /\ pk'.pos = pk.pos + 1
          /\ pk'.ind = pk.ind
          /\ PlacedAsOrdered(pk, pk', pk.ind.rectangle_order[pk.pos + 1])]_vars

\* the too wide rectangle came first and stayed unplaced, the three after it
\* were placed, one of them on a top edge and one in the second container
C22_Witness ==
    /\ prob = WideMix /\ Packed
    /\ pk.ind.rectangle_order[1] = 3
    /\ pk.rectangle_assignments[4] = -1
    /\ pk.placed_count = 3
    /\ \E c \in PkContainers : c.top_rectangles # <<>>
    /\ \E i \in 1..3 : pk.rectangle_assignments[i] = 1

\* the highest fitness in the population
TopFitness == MaxOf({population[i].fitness : i \in 1..Len(population)})

Improved == best_individual = None \/ TopFitness > best_individual.fitness

\* the bookkeeping of one ranking step: counter, best-ever fitness, history
RankingTracked ==
    /\ population'[1].fitness = TopFitness
    /\ IF Improved
       THEN /\ best_individual'.fitness = TopFitness
            /\ best_individual'.containers = population'[1].containers
            /\ stagnation_counter' = 0
       ELSE /\ Content(best_individual') = Content(best_individual)
            /\ stagnation_counter' = stagnation_counter + 1
    /\ best_individual # None => best_individual'.fitness >= best_individual.fitness
    /\ best_fitness_history' = Append(best_fitness_history, best_individual'.fitness)
    /\ \A k \in 1..Len(best_fitness_history) :
          best_fitness_history'[Len(best_fitness_history')] >= best_fitness_history[k]

\* the new best-ever encoding carries the top encoding's container count,
\* height list and rectangle order
BestIsCopyOfTop == Improved => Genes(best_individual') = Genes(population'[1])

\* C23: at each ranking, if the top fitness strictly exceeds the best-ever
\* fitness, best-ever becomes a copy of the top encoding and the stagnation
\* counter 0; otherwise best-ever is unchanged and the counter grows by 1; the
\* best-ever fitness and the fitness history never decrease.
C23_BestEverTracked ==
    [][(pc = "rank" /\ pc' = "elitism") => (RankingTracked /\ BestIsCopyOfTop)]_vars

\* the part of C23 the copy defect does not touch
C23_Bookkeeping == [][(pc = "rank" /\ pc' = "elitism") => RankingTracked]_vars

\* the rate of the current generation against the base rate (per cent)
RateWithinBounds ==
    pc \notin {"start", "rank"} =>
        /\ stagnation_counter <= 15 => current_mutation = prob.mutation_rate
        /\ stagnation_counter > 15 =>
              /\ current_mutation >= prob.mutation_rate
              /\ current_mutation <= 80

\* the rate after a step, and its growth with the counter at a ranking
RateStep ==
    /\ RateWithinBounds'
    /\ (pc = "rank" /\ pc' = "elitism" /\ stagnation_counter' > stagnation_counter
           /\ generation > 0)
         => current_mutation' >= current_mutation

\* C24: the mutation rate of a generation is the base rate while the
\* stagnation counter is at most 15; beyond 15 it is never below the base
\* rate, does not decrease as the counter grows and never exceeds 0.8, for
\* every base rate in [0,1].
C24_AdaptiveRate == [][RateStep]_vars

\* C24 for base rates of at most 0.8
C24_UpToCeiling == [][prob.mutation_rate <= 80 => RateStep]_vars

\* no two items of one edge have overlapping x-spans
EdgeDisjoint(items) ==
    \A i, j \in 1..Len(items) :
       i < j => (XSpan(items[i])[2] <= XSpan(items[j])[1]
                   \/ XSpan(items[j])[2] <= XSpan(items[i])[1])

\* all items of all edges of all containers, in one sequence
RECURSIVE AllPlaced(_, _)
AllPlaced(containers, i) ==
    IF i > Len(containers) THEN <<>>
    ELSE AllItems(containers[i]) \o AllPlaced(containers, i + 1)

\* C25: in every container of pack_rectangles no two rectangles on the same
\* edge overlap horizontally, no rectangle id appears more than once across
\* all edges of all containers, and placed_count is the number of items.
C25_EdgesDisjoint ==
    pc \in {"pack", "packed"} =>
        /\ \A c \in PkContainers :
              EdgeDisjoint(c.bottom_rectangles) /\ EdgeDisjoint(c.top_rectangles)
        /\ \E all \in {AllPlaced(pk.containers, 1)} :
              /\ \A i, j \in 1..Len(all) : i < j => all[i][1] # all[j][1]
              /\ pk.placed_count = Len(all)

\* a returned packing with two containers in use, two items side by side on
\* a bottom edge and two on a top edge
C25_Witness ==
    /\ Packed
    /\ \A c \in PkContainers : HasItems(c)
    /\ Len(pk.containers) = 2
    /\ \E c \in PkContainers : Len(c.bottom_rectangles) >= 2
    /\ \E c \in PkContainers : Len(c.top_rectangles) >= 2

\* C26: when evolve returns, the fitness of the returned best encoding is at
\* least the fitness of every encoding evaluated during the run, the members
\* of the final population included.
C26_ReturnedBestIsBest ==
    pc = "done" =>
        \A i \in 1..Len(population) : best_individual.fitness >= population[i].fitness

\* C27: every per-container height budget of every encoding reachable by
\* initialisation, crossover and sequences of mutation operators is strictly
\* positive (max_total_height > 0).
C27_BudgetsPositive ==
    \A e \in Encodings :
       \A i \in 1..Len(e.container_heights) : e.container_heights[i] > 0

====
